---- MODULE Spec2Model ----
(***************************************************************************)
(* Model of the case-twin repository:                                      *)
(*   - data_pipeline/diagnosis_graph.py: the six-node diagnosis graph, the *)
(*     JSON extraction helpers and the CaseChat session;                   *)
(*   - backend/main.py: the POST /search handler.                          *)
(*                                                                         *)
(* A model output is a sequence of lexical tokens.  "{" "}" "[" "]" are    *)
(* the JSON brackets, a token ending in ":" is a quoted key with its       *)
(* colon, "1" is a scalar literal, "~~~" is a markdown code fence (three   *)
(* backquotes, with or without the json tag), and the                      *)
(* prose tokens stand for one line of free text each.  Separating commas   *)
(* and white space are implicit between tokens.                            *)
(***************************************************************************)
EXTENDS Integers, Sequences, FiniteSets, TLC

VARIABLES
    text,          \* extraction: the model output handed to the extractors
    obj_result,    \* extraction: what _extract_json_object returned
    arr_result,    \* extraction: what _extract_json_array returned
    env,           \* graph: the dataset file and the case id asked for
    pc,            \* graph: the node to run next, "END" or "aborted"
    executed,      \* graph: the nodes that have returned, in order
    error,         \* graph: the exception that ended the run, or "none"
    state,         \* graph: the DiagnosisState
    calls,         \* graph: the calls of _call_medgemma made by the run
    chat,          \* chat: the CaseChat object
    delivered,     \* chat: the request the model backend sent last
    chat_out,      \* chat: what the last ask returned
    last_op,       \* chat: the last method called on the CaseChat
    http_request,  \* backend: the HTTP request handled
    http_response, \* backend: the HTTP response
    stages,        \* backend: the calls the handler made, in order
    source_data,   \* dataset build: the records of the input file
    cache,         \* dataset build: the cache directory, by PMCID
    cursor,        \* dataset build: the record the run is at, 0 when none runs
    results,       \* dataset build: the schema records of the current run
    errors,        \* dataset build: the records build_record failed on
    extractions,   \* dataset build: the calls of call_gemini, by PMCID
    requests,      \* dataset build: the requests sent to the model, by PMCID
    runs           \* dataset build: the runs started

extractVars == <<text, obj_result, arr_result>>
graphVars == <<env, pc, executed, error, state, calls>>
chatVars == <<chat, delivered, chat_out, last_op>>
searchVars == <<http_request, http_response, stages>>
datasetVars == <<source_data, cache, cursor, results, errors, extractions,
                 requests, runs>>
vars == <<text, obj_result, arr_result, env, pc, executed, error, state, calls,
          chat, delivered, chat_out, last_op, http_request, http_response,
          stages, source_data, cache, cursor, results, errors, extractions,
          requests, runs>>

-----------------------------------------------------------------------------
(* Bounds *)

\* nesting depth of the generated JSON documents
MaxDepth == 3
\* number of members of a generated object / elements of a generated array
MaxWidth == 1
\* number of entries of the dataset file
MaxCases == 2
\* ask is not called once history has this many entries
MaxHistory == 8

-----------------------------------------------------------------------------
(* Python / JSON values *)

\* A value is a record [t, k, c]: its type, its keys (objects) or its
\* literal (strings), and its children (objects, arrays).
None == [t |-> "None", k |-> <<>>, c |-> <<>>]
JSONDecodeError == [t |-> "JSONDecodeError", k |-> <<>>, c |-> <<>>]
Unset == [t |-> "unset", k |-> <<>>, c |-> <<>>]
Num == [t |-> "num", k |-> <<>>, c |-> <<>>]
Str(s) == [t |-> "str", k |-> <<"\"" \o s \o "\"">>, c |-> <<>>]
Obj(keys, vals) == [t |-> "obj", k |-> keys, c |-> vals]
Arr(vals) == [t |-> "arr", k |-> <<>>, c |-> vals]

IsDict(v) == v.t = "obj"
IsList(v) == v.t = "arr"

\* Python truthiness of a value
Truthy(v) ==
    CASE v.t = "None" -> FALSE
      [] v.t \in {"obj", "arr"} -> Len(v.c) > 0
      [] OTHER -> TRUE

\* dict.get(key, default); a repeated key keeps its last value
Get(d, key, default) ==
    LET I == {i \in 1..Len(d.k) : d.k[i] = key}
    IN IF I = {} THEN default
       ELSE d.c[CHOOSE i \in I : \A j \in I : j <= i]

Min(S) == CHOOSE x \in S : \A y \in S : x <= y

SeqsUpTo(S, n) == UNION {[1..m -> S] : m \in 0..n}

\* F applied to the value of x; x is evaluated once, whatever F does with it
Bind(x, F(_)) == CHOOSE y \in {F(v) : v \in {x}} : TRUE

\* s is an initial part of t
IsPrefix(s, t) == Len(s) <= Len(t) /\ s = SubSeq(t, 1, Len(s))

\* a text as one string literal
RECURSIVE Join(_)
Join(toks) == IF toks = <<>> THEN "" ELSE Head(toks) \o " " \o Join(Tail(toks))

-----------------------------------------------------------------------------
(* Tokens *)

Fence == "~~~"

\* the fence that names the language
FenceJson == "~~~json"

KeyTokens ==
    {"underlying_etiology:", "acute_complication:", "differentials:",
     "critical_findings:", "clinical_reasoning:", "raw_response:",
     "condition:", "confidence:", "reasoning:", "supporting_evidence:",
     "against_evidence:", "why_missed:", "confirmatory_tests:",
     "risk_if_missed:", "presentation:", "hpi:", "outcome:", "detail:",
     "name:"}

\* One line of prose each:
\*   "w"        any text with no bracket and no keyword
\*   "Primary"  "PRIMARY DIAGNOSIS: <condition>"
\*   "DiffHdr"  "DIFFERENTIAL DIAGNOSES:"
\*   "CritHdr"  "CRITICAL FINDINGS:"
\*   "Item"     "1. **<condition>**"
\*   "Plain"    "1. <condition>:"
\*   "Bullet"   "- **<condition>**"
\*   "SkipItem" "1. **Confidence: 80**"
ProseTokens ==
    {"w", "Primary", "DiffHdr", "CritHdr", "Item", "Plain", "Bullet",
     "SkipItem"}

StructTokens == {"{", "}", "[", "]", "1", Fence, FenceJson}

IsStrTok(tok) == tok \notin (KeyTokens \cup ProseTokens \cup StructTokens)

-----------------------------------------------------------------------------
(* json.dumps / json.loads *)

RECURSIVE JsonDumps(_)
RECURSIVE DumpItems(_, _)

DumpItems(v, i) ==
    IF i > Len(v.c) THEN <<>>
    ELSE (IF v.t = "obj" THEN <<v.k[i]>> ELSE <<>>)
            \o JsonDumps(v.c[i]) \o DumpItems(v, i + 1)

JsonDumps(v) ==
    CASE v.t = "num" -> <<"1">>
      [] v.t = "str" -> <<v.k[1]>>
      [] v.t = "obj" -> <<"{">> \o DumpItems(v, 1) \o <<"}">>
      [] v.t = "arr" -> <<"[">> \o DumpItems(v, 1) \o <<"]">>

ParseFail(i) == [ok |-> FALSE, v |-> JSONDecodeError, n |-> i]

RECURSIVE ParseValue(_, _)
RECURSIVE ParseItems(_, _, _, _, _)

\* parse the items of an object or array whose opening bracket was consumed
ParseItems(toks, i, kind, keys, vals) ==
    IF i > Len(toks) THEN ParseFail(i)
    ELSE IF toks[i] = (IF kind = "obj" THEN "}" ELSE "]")
    THEN [ok |-> TRUE, v |-> [t |-> kind, k |-> keys, c |-> vals], n |-> i + 1]
    ELSE IF kind = "obj"
    THEN IF toks[i] \in KeyTokens
         THEN Bind(ParseValue(toks, i + 1), LAMBDA r :
                IF r.ok
                THEN ParseItems(toks, r.n, kind, Append(keys, toks[i]),
                                Append(vals, r.v))
                ELSE ParseFail(i))
         ELSE ParseFail(i)
    ELSE Bind(ParseValue(toks, i), LAMBDA r :
           IF r.ok
           THEN ParseItems(toks, r.n, kind, keys, Append(vals, r.v))
           ELSE ParseFail(i))

ParseValue(toks, i) ==
    IF i > Len(toks) THEN ParseFail(i)
    ELSE CASE toks[i] = "1" -> [ok |-> TRUE, v |-> Num, n |-> i + 1]
           [] toks[i] = "{" -> ParseItems(toks, i + 1, "obj", <<>>, <<>>)
           [] toks[i] = "[" -> ParseItems(toks, i + 1, "arr", <<>>, <<>>)
           [] IsStrTok(toks[i]) ->
                [ok |-> TRUE,
                 v |-> [t |-> "str", k |-> <<toks[i]>>, c |-> <<>>],
                 n |-> i + 1]
           [] OTHER -> ParseFail(i)

\* json.loads: the whole text must be one JSON value
JsonLoads(toks) ==
    Bind(ParseValue(toks, 1), LAMBDA r :
      IF r.ok /\ r.n = Len(toks) + 1 THEN r.v ELSE JSONDecodeError)

-----------------------------------------------------------------------------
(* _extract_text_diagnosis *)

Positions(txt, tok) == {i \in 1..Len(txt) : txt[i] = tok}

\* the tokens of txt after position h up to the first token of Stop
SectionAfter(txt, h, Stop) ==
    LET E == {j \in (h + 1)..Len(txt) : txt[j] \in Stop}
        e == IF E = {} THEN Len(txt) + 1 ELSE Min(E)
    IN SubSeq(txt, h + 1, e - 1)

RECURSIVE SelectTokens(_, _)
SelectTokens(s, Keep) ==
    IF s = <<>> THEN <<>>
    ELSE (IF Head(s) \in Keep THEN <<Head(s)>> ELSE <<>>)
            \o SelectTokens(Tail(s), Keep)

FirstN(s, n) == SubSeq(s, 1, IF Len(s) < n THEN Len(s) ELSE n)

TextDifferential ==
    Obj(<<"condition:", "confidence:", "supporting_evidence:",
          "against_evidence:">>,
        <<Str("cond"), Num, Arr(<<>>), Arr(<<>>)>>)

_extract_text_diagnosis(txt) ==
    LET hasPrimary == Positions(txt, "Primary") # {}
        dh == Positions(txt, "DiffHdr")
        \* list items of the section, the first five, then the filter
        diffLines == IF dh = {} THEN <<>>
                     ELSE FirstN(SelectTokens(
                                   SectionAfter(txt, Min(dh), {"CritHdr"}),
                                   {"Item", "Plain", "Bullet", "SkipItem"}), 5)
        diffItems == SelectTokens(diffLines, {"Item", "Plain", "Bullet"})
        ch == Positions(txt, "CritHdr")
        critItems == IF ch = {} THEN <<>>
                     ELSE FirstN(SelectTokens(
                                   SectionAfter(txt, Min(ch), {}),
                                   {"Item", "Bullet", "SkipItem"}), 5)
        keys == (IF hasPrimary THEN <<"acute_complication:">> ELSE <<>>)
                 \o (IF diffItems # <<>> THEN <<"differentials:">> ELSE <<>>)
                 \o (IF ch # {} THEN <<"critical_findings:">> ELSE <<>>)
        vals == (IF hasPrimary
                 THEN <<Obj(<<"condition:", "confidence:", "reasoning:">>,
                            <<Str("cond"), Num,
                              Str("Extracted from text output")>>)>>
                 ELSE <<>>)
                 \o (IF diffItems # <<>>
                     THEN <<Arr([i \in 1..Len(diffItems) |-> TextDifferential])>>
                     ELSE <<>>)
                 \o (IF ch # {}
                     THEN <<Arr([i \in 1..Len(critItems) |-> Str("finding")])>>
                     ELSE <<>>)
    IN IF keys = <<>> THEN None ELSE Obj(keys, vals)

-----------------------------------------------------------------------------
(* _extract_json_object / _extract_json_array *)

\* re.search of the fenced-block pattern: the leftmost
\* fence followed by an opening bracket, then lazily up to the first
\* closing bracket that is followed by a fence; <<>> when there is no match
FencedGroup(txt, open, close) ==
    LET Ends(i) == {j \in (i + 2)..(Len(txt) - 1) :
                        txt[j] = close /\ txt[j + 1] = Fence}
    IN Bind({i \in 1..(Len(txt) - 1) :
               txt[i] = Fence /\ txt[i + 1] = open /\ Ends(i) # {}}, LAMBDA I :
         IF I = {} THEN <<>>
         ELSE Bind(Min(I), LAMBDA i : SubSeq(txt, i + 1, Min(Ends(i)))))

\* depth after reading txt[start..k]
Depth(txt, start, k, open, close) ==
    Cardinality({i \in start..k : txt[i] = open})
        - Cardinality({i \in start..k : txt[i] = close})

\* the candidate positions, last to first
RECURSIVE ScanCandidates(_, _, _, _)
ScanCandidates(txt, open, close, cands) ==
    IF cands = {} THEN None
    ELSE Bind(CHOOSE x \in cands : \A y \in cands : y <= x, LAMBDA start :
           Bind(JsonLoads(SubSeq(txt, start, Len(txt))), LAMBDA whole :
             IF whole # JSONDecodeError THEN whole
             ELSE Bind({k \in start..Len(txt) :
                          Depth(txt, start, k, open, close) = 0}, LAMBDA Z :
                    Bind(IF Z = {} THEN JSONDecodeError
                         ELSE JsonLoads(SubSeq(txt, start, Min(Z))), LAMBDA part :
                      IF part # JSONDecodeError THEN part
                      ELSE ScanCandidates(txt, open, close, cands \ {start})))))

FencedJson(txt, open, close) ==
    Bind(FencedGroup(txt, open, close), LAMBDA group :
      IF group = <<>> THEN JSONDecodeError ELSE JsonLoads(group))

_extract_json_object(txt) ==
    Bind(FencedJson(txt, "{", "}"), LAMBDA fenced :
      IF fenced # JSONDecodeError THEN fenced
      ELSE Bind(ScanCandidates(txt, "{", "}", Positions(txt, "{")), LAMBDA scanned :
             IF scanned # None THEN scanned
             ELSE _extract_text_diagnosis(txt)))

_extract_json_array(txt) ==
    Bind(FencedJson(txt, "[", "]"), LAMBDA fenced :
      IF fenced # JSONDecodeError THEN fenced
      ELSE ScanCandidates(txt, "[", "]", Positions(txt, "[")))

-----------------------------------------------------------------------------
(* Model outputs for the extraction specification *)

GenKeys == <<"acute_complication:", "differentials:", "critical_findings:",
             "clinical_reasoning:", "underlying_etiology:">>

RECURSIVE JsonValues(_)
JsonValues(d) ==
    IF d = 0 THEN {Num}
    ELSE LET S == JsonValues(d - 1)
         IN {Num}
            \cup {Obj(SubSeq(GenKeys, 1, Len(vs)), vs) : vs \in SeqsUpTo(S, MaxWidth)}
            \cup {Arr(vs) : vs \in SeqsUpTo(S, MaxWidth)}

\* the output is the document alone, or the document in prose, in a
\* fence, or cut off before its last token
Wrappings == {"bare", "prefixed", "suffixed", "fenced", "truncated"}

Wrap(doc, how) ==
    CASE how = "bare" -> doc
      [] how = "prefixed" -> <<"w">> \o doc
      [] how = "suffixed" -> doc \o <<"w">>
      [] how = "fenced" -> <<"w", Fence>> \o doc \o <<Fence>>
      [] how = "truncated" -> SubSeq(doc, 1, Len(doc) - 1)

ExtractInputs ==
    {Wrap(JsonDumps(v), how) : v \in JsonValues(MaxDepth), how \in Wrappings}

-----------------------------------------------------------------------------
(* _extract_text_alternatives *)

TextAlternative ==
    Obj(<<"condition:", "confidence:", "why_missed:", "supporting_evidence:",
          "confirmatory_tests:", "risk_if_missed:">>,
        <<Str("cond"), Num, Str("Extracted from text output"), Arr(<<>>),
          Arr(<<>>), Str("medium")>>)

\* the three patterns in order; the first that yields a kept match wins
_extract_text_alternatives(txt) ==
    LET numberedBold == SelectTokens(SelectTokens(txt, {"Item", "SkipItem"}),
                                     {"Item"})
        numbered == SelectTokens(txt, {"Plain"})
        bulletBold == SelectTokens(txt, {"Bullet"})
        found == IF numberedBold # <<>> THEN numberedBold
                 ELSE IF numbered # <<>> THEN numbered
                 ELSE bulletBold
    IN IF found = <<>> THEN None
       ELSE Arr([i \in 1..Len(FirstN(found, 5)) |-> TextAlternative])

-----------------------------------------------------------------------------
(* The dataset and the model *)

\* Python None in a field that holds text
NoneStr == <<"None">>
\* _call_medgemma raising instead of returning
Raise == <<"raise">>

CaseIds == {"c1", "c2"}

\* per image of the case: does its file exist
CaseImages(id) == IF id = "c1" THEN <<TRUE>> ELSE <<FALSE, TRUE>>
CaseRecord(id) == [case_id |-> id, images |-> CaseImages(id)]
EmptyCase == [case_id |-> "", images |-> <<>>]

\* The dataset file: a list of case records, or a dict keyed by case id.
\* The records are schema-conformant (they carry provenance and image
\* fields), as transform_to_schema.py writes them.
DatasetEntries == {[key |-> id, case |-> CaseRecord(id)] : id \in CaseIds}
Datasets ==
    {[form |-> f, entries |-> es] :
        f \in {"list", "dict"}, es \in SeqsUpTo(DatasetEntries, MaxCases)}

\* the cases dict of load_case_node: the key of an entry
CaseKey(ds, e) == IF ds.form = "list" THEN e.case.case_id ELSE e.key
CaseKeys(ds) == {CaseKey(ds, ds.entries[i]) : i \in 1..Len(ds.entries)}
CaseLookup(ds, id) ==
    LET I == {i \in 1..Len(ds.entries) : CaseKey(ds, ds.entries[i]) = id}
    IN ds.entries[CHOOSE i \in I : \A j \in I : j <= i].case

Envs ==
    {[exists |-> TRUE, dataset |-> ds] : ds \in Datasets}
        \cup {[exists |-> FALSE, dataset |-> [form |-> "list", entries |-> <<>>]]}

S == "\"x\""

FullObject ==
    <<"{", "acute_complication:", "{", "condition:", S, "}",
      "differentials:", "[", "{", "condition:", S, "supporting_evidence:",
      "[", S, "]", "}", "]", "critical_findings:", "[", S, "]", "}">>

\* what the model may answer
ModelOutputs ==
    {<<"w">>,
     FullObject,
     <<Fence>> \o FullObject \o <<Fence>>,
     <<"{", "acute_complication:", S, "}">>,
     <<"{", "differentials:", "[", S, "]", "}">>,
     <<"{", "differentials:", "[", "]", "}">>,
     <<"{", "}">>,
     <<"Primary", "DiffHdr", "Item", "Item">>,
     <<"CritHdr", "Bullet">>,
     <<"[", "{", "condition:", S, "risk_if_missed:", S, "}", "]">>,
     <<"[", "{", "condition:", S, "supporting_evidence:", "[", S, "]", "}", "]">>,
     <<"w", "Item", "SkipItem">>,
     <<"Plain", "Bullet">>}

\* the bias audit is free text that no node parses
BiasOutputs == {<<"w">>, <<"w", "Item", "SkipItem">>}

-----------------------------------------------------------------------------
(* build_diagnosis_graph / run_diagnosis *)

EntryPoint == "load_case"

\* the graph with load_images left out of the chain
EdgeSkippingImages ==
    [load_case |-> "initial_diagnosis",
     load_images |-> "initial_diagnosis",
     initial_diagnosis |-> "bias_check",
     bias_check |-> "alternative_hypotheses",
     alternative_hypotheses |-> "final_report",
     final_report |-> "END"]

Edge ==
    [load_case |-> "load_images",
     load_images |-> "initial_diagnosis",
     initial_diagnosis |-> "bias_check",
     bias_check |-> "alternative_hypotheses",
     alternative_hypotheses |-> "final_report",
     final_report |-> "END"]

initial_state(case_id) ==
    [case_id |-> case_id,
     case_data |-> EmptyCase,
     images_b64 |-> <<>>,
     initial_diagnosis |-> NoneStr,
     differential_diagnoses |-> None,
     bias_check_notes |-> NoneStr,
     alternative_hypotheses |-> None,
     final_report |-> NoneStr,
     messages |-> <<>>]

GraphIdle ==
    /\ env = [exists |-> FALSE, dataset |-> [form |-> "list", entries |-> <<>>]]
    /\ pc = "idle"
    /\ executed = <<>>
    /\ error = "none"
    /\ state = initial_state("c1")
    /\ calls = <<>>

\* a node returns: the graph merges its result and follows the node's edge
Return(node, result, log) ==
    /\ state' = result
    /\ pc' = Edge[node]
    /\ executed' = Append(executed, node)
    /\ calls' = log
    /\ UNCHANGED <<error, env>>

\* a node raises: graph.invoke and run_diagnosis propagate the exception
Abort(exc, log) ==
    /\ pc' = "aborted"
    /\ error' = exc
    /\ calls' = log
    /\ UNCHANGED <<state, executed, env>>

Call(node, task, images, response) ==
    [node |-> node, task |-> task, images |-> Len(images), response |-> response]

\* the exception load_case_node raises, or "none"
LoadCaseErrorNoFileCheck(e, case_id) ==
    IF case_id \notin CaseKeys(e.dataset) THEN "ValueError" ELSE "none"

LoadCaseError(e, case_id) ==
    IF ~e.exists THEN "FileNotFoundError"
    ELSE IF case_id \notin CaseKeys(e.dataset) THEN "ValueError"
    ELSE "none"

load_case_node ==
    /\ pc = "load_case"
    /\ IF LoadCaseError(env, state.case_id) # "none"
       THEN Abort(LoadCaseError(env, state.case_id), calls)
       ELSE Return("load_case",
                   [state EXCEPT
                      !.case_data = CaseLookup(env.dataset, state.case_id),
                      !.messages = Append(@, "Starting diagnosis")],
                   calls)
    /\ UNCHANGED <<extractVars, chatVars, searchVars, datasetVars>>

\* an image whose file is missing is skipped
load_images_node ==
    /\ pc = "load_images"
    /\ Return("load_images",
              [state EXCEPT
                 !.images_b64 = SelectTokens(state.case_data.images, {TRUE})],
              calls)
    /\ UNCHANGED <<extractVars, chatVars, searchVars, datasetVars>>

-----------------------------------------------------------------------------
(* initial_diagnosis_node *)

\* one more attempt than the source allows
max_retries_three == 2 + 1

max_retries == 2

\* the success test of the retry loop:
\*   diagnosis_data is not None and diagnosis_data.get('acute_complication')
\*       or diagnosis_data.get('differentials')
\* "and" binds tighter than "or", so the second get is evaluated on None too
ExtractionTest(d) ==
    IF d # None /\ Truthy(Get(d, "acute_complication:", None)) THEN "true"
    ELSE IF d = None THEN "AttributeError"
    ELSE IF Truthy(Get(d, "differentials:", None)) THEN "true"
    ELSE "false"

\* the retry loop from attempt on; rs[i] is what the i-th model call does
RECURSIVE RetryLoop(_, _, _, _, _, _, _)
RetryLoop(st, attempt, task, diagnosis_data, response, rs, log) ==
    IF attempt >= max_retries
    THEN [exc |-> "none", diagnosis_data |-> diagnosis_data,
          response |-> response, log |-> log]
    ELSE Bind(rs[attempt + 1], LAMBDA r :
           Bind(Append(log, Call("initial_diagnosis", task, st.images_b64, r)),
                LAMBDA log2 :
             IF r = Raise
             THEN [exc |-> "ModelError", diagnosis_data |-> diagnosis_data,
                   response |-> response, log |-> log2]
             ELSE Bind(_extract_json_object(r), LAMBDA d :
                    Bind(ExtractionTest(d), LAMBDA test :
                      IF test = "AttributeError"
                      THEN [exc |-> "AttributeError", diagnosis_data |-> d,
                            response |-> r, log |-> log2]
                      ELSE IF test = "true"
                      THEN [exc |-> "none", diagnosis_data |-> d,
                            response |-> r, log |-> log2]
                      ELSE RetryLoop(st, attempt + 1,
                                     IF attempt < max_retries - 1
                                     THEN "strict" ELSE task,
                                     d, r, rs, log2)))))

initial_diagnosis_node ==
    /\ pc = "initial_diagnosis"
    /\ \E rs \in [1..max_retries -> ModelOutputs \cup {Raise}] :
       \E loop \in {RetryLoop(state, 0, "initial", None, <<>>, rs, calls)} :
         LET diagnosis_data ==
                 IF loop.diagnosis_data = None
                 THEN Obj(<<"raw_response:">>, <<Str(Join(loop.response))>>)
                 ELSE loop.diagnosis_data
             acute == Get(diagnosis_data, "acute_complication:", Obj(<<>>, <<>>))
         IN IF loop.exc # "none"
            THEN Abort(loop.exc, loop.log)
            \* the message reads acute_complication's condition with .get
            ELSE IF ~IsDict(acute)
            THEN Abort("AttributeError", loop.log)
            ELSE Return("initial_diagnosis",
                        [state EXCEPT
                           !.initial_diagnosis = JsonDumps(diagnosis_data),
                           !.differential_diagnoses =
                               Get(diagnosis_data, "differentials:", Arr(<<>>)),
                           !.messages = Append(@, "Initial diagnosis generated")],
                        loop.log)
    /\ UNCHANGED <<extractVars, chatVars, searchVars, datasetVars>>

-----------------------------------------------------------------------------
(* bias_check_node *)

bias_check_node ==
    /\ pc = "bias_check"
    /\ \E r \in BiasOutputs \cup {Raise} :
         LET log == Append(calls, Call("bias_check", "bias", <<>>, r))
         IN IF r = Raise
            THEN Abort("ModelError", log)
            ELSE Return("bias_check",
                        [state EXCEPT !.bias_check_notes = r,
                                      !.messages = Append(@, "Bias check completed")],
                        log)
    /\ UNCHANGED <<extractVars, chatVars, searchVars, datasetVars>>

-----------------------------------------------------------------------------
(* alternative_hypotheses_node *)

\* for v in obj.values(): if isinstance(v, list): alts = v; break
FirstListValue(obj) ==
    LET I == {i \in 1..Len(obj.c) : IsList(obj.c[i])}
    IN IF I = {} THEN None ELSE obj.c[Min(I)]

\* if obj and isinstance(obj, dict): the first list among its values
ObjectFallback(obj) ==
    Bind(obj, LAMBDA o : IF Truthy(o) /\ IsDict(o) THEN FirstListValue(o) ELSE None)

RawPlaceholder(response) ==
    Arr(<<Obj(<<"raw_response:", "condition:", "confidence:", "risk_if_missed:">>,
              <<Str(Join(response)),
                Str("See raw output"), Num, Str("unknown")>>)>>)

\* prose extraction tried before the object fallback
AlternativesTextFirst(response) ==
    Bind(_extract_json_array(response), LAMBDA fromArray :
      IF fromArray # None THEN fromArray
      ELSE Bind(_extract_text_alternatives(response), LAMBDA fromText :
             IF fromText # None THEN fromText
             ELSE Bind(ObjectFallback(_extract_json_object(response)),
                       LAMBDA fromObject :
                    IF fromObject # None THEN fromObject
                    ELSE RawPlaceholder(response))))

Alternatives(response) ==
    Bind(_extract_json_array(response), LAMBDA fromArray :
      IF fromArray # None THEN fromArray
      ELSE Bind(ObjectFallback(_extract_json_object(response)), LAMBDA fromObject :
             IF fromObject # None THEN fromObject
             ELSE Bind(_extract_text_alternatives(response), LAMBDA fromText :
                    IF fromText # None THEN fromText
                    ELSE RawPlaceholder(response))))

alternative_hypotheses_node ==
    /\ pc = "alternative_hypotheses"
    /\ \E r \in ModelOutputs \cup {Raise} :
         LET log == Append(calls, Call("alternative_hypotheses", "alternatives",
                                       state.images_b64, r))
         IN IF r = Raise
            THEN Abort("ModelError", log)
            ELSE Return("alternative_hypotheses",
                        [state EXCEPT
                           !.alternative_hypotheses = Alternatives(r),
                           !.messages = Append(@, "Generated alternative hypotheses")],
                        log)
    /\ UNCHANGED <<extractVars, chatVars, searchVars, datasetVars>>

-----------------------------------------------------------------------------
(* final_report_node *)

\* '; '.join(x[:n]): x is a str, or a list whose first n elements are str
Joinable(x, n) ==
    \/ x.t = "str"
    \/ IsList(x) /\ \A i \in 1..Len(x.c) : i <= n => x.c[i].t = "str"

\* the elements a for loop over x visits; None when x is not iterable
IterItems(x) ==
    CASE x.t = "arr" -> x.c
      [] x.t = "obj" -> [i \in 1..Len(x.k) |-> [t |-> "str", k |-> <<x.k[i]>>, c |-> <<>>]]
      [] x.t = "str" -> <<x>>
      [] OTHER -> <<None>>

\* the exception the report's formatting raises on the state, or "none"
ReportException(st) ==
    LET loaded == JsonLoads(st.initial_diagnosis)
        initial_data == IF loaded = JSONDecodeError THEN Obj(<<>>, <<>>) ELSE loaded
        etiology == Get(initial_data, "underlying_etiology:", Obj(<<>>, <<>>))
        primary == Get(initial_data, "acute_complication:", etiology)
        diffs == IterItems(st.differential_diagnoses)
        alts == IterItems(st.alternative_hypotheses)
        Shown(alt) == IsDict(alt) /\ Get(alt, "condition:", None) # None
    IN IF ~IsDict(initial_data) \/ ~IsDict(primary) \/ ~IsDict(etiology)
       THEN "AttributeError"
       ELSE IF st.differential_diagnoses.t \in {"num", "None"}
       THEN "TypeError"
       ELSE IF \E i \in 1..Len(diffs) : ~IsDict(diffs[i])
       THEN "AttributeError"
       ELSE IF \E i \in 1..Len(diffs) :
                 \/ ~Joinable(Get(diffs[i], "supporting_evidence:", Arr(<<>>)), 2)
                 \/ ~Joinable(Get(diffs[i], "against_evidence:", Arr(<<>>)), 2)
       THEN "TypeError"
       ELSE IF \E i \in 1..Len(alts) :
                 Shown(alts[i]) /\ Get(alts[i], "risk_if_missed:", Str("?")).t # "str"
       THEN "AttributeError"
       ELSE IF \E i \in 1..Len(alts) :
                 /\ Shown(alts[i])
                 /\ \/ ~Joinable(Get(alts[i], "supporting_evidence:", Arr(<<>>)), 2)
                    \/ ~Joinable(Get(alts[i], "confirmatory_tests:", Arr(<<>>)), 3)
       THEN "TypeError"
       ELSE "none"

final_report_node ==
    /\ pc = "final_report"
    /\ \E exc \in {ReportException(state)} :
       IF exc # "none"
       THEN Abort(exc, calls)
       ELSE Return("final_report",
                   [state EXCEPT !.final_report = <<"report">>,
                                 !.messages = Append(@, "Final report compiled")],
                   calls)
    /\ UNCHANGED <<extractVars, chatVars, searchVars, datasetVars>>

-----------------------------------------------------------------------------
(* Subsystems at rest *)

ExtractIdle ==
    /\ text = <<>>
    /\ obj_result = Unset
    /\ arr_result = Unset

SearchIdle ==
    /\ http_request = [handled |-> FALSE]
    /\ http_response = [status |-> 0]
    /\ stages = <<>>

\* the PMCIDs of the input file
PMCIDs == {"PMC1", "PMC2"}

DatasetIdle ==
    /\ source_data = <<>>
    /\ cache = [p \in PMCIDs |-> "absent"]
    /\ cursor = 0
    /\ results = <<>>
    /\ errors = <<>>
    /\ extractions = [p \in PMCIDs |-> 0]
    /\ requests = [p \in PMCIDs |-> 0]
    /\ runs = 0

-----------------------------------------------------------------------------
(* CaseChat *)

Questions == {"q1", "q2"}
ChatResponses == {"r1", "r2"}

HumanMessage(txt, n) == [type |-> "human", text |-> txt, images |-> n]
AIMessage(txt) == [type |-> "ai", text |-> txt, images |-> 0]

\* completed pipeline states a chat is created from
ChatFinalStates ==
    {[initial_state("c1") EXCEPT
        !.case_data = CaseRecord("c1"),
        !.images_b64 = <<TRUE>>,
        !.initial_diagnosis = FullObject,
        !.differential_diagnoses = Get(JsonLoads(FullObject), "differentials:", Arr(<<>>)),
        !.bias_check_notes = <<"w">>,
        !.alternative_hypotheses = Arr(<<TextAlternative>>),
        !.final_report = <<"report">>],
     [initial_state("c2") EXCEPT
        !.case_data = [case_id |-> "c2", images |-> <<>>],
        !.initial_diagnosis = <<"{", "critical_findings:", "[", "]", "}">>,
        !.differential_diagnoses = Arr(<<>>),
        !.bias_check_notes = <<"w">>,
        !.alternative_hypotheses = RawPlaceholder(<<"w">>),
        !.final_report = <<"report">>]}

\* CaseChat.__init__
CaseChat(final_state) ==
    [case_data |-> final_state.case_data,
     images_b64 |-> final_state.images_b64,
     diagnosis |-> final_state.initial_diagnosis,
     differentials |-> final_state.differential_diagnoses,
     alternatives |-> final_state.alternative_hypotheses,
     history |-> <<>>]

\* s[-n:]
LastN(s, n) == IF Len(s) <= n THEN s ELSE SubSeq(s, Len(s) - n + 1, Len(s))

\* both backends copy a message into the request only when it is a
\* HumanMessage
RECURSIVE UserMessages(_)
UserMessages(messages) ==
    IF messages = <<>> THEN <<>>
    ELSE (IF Head(messages).type = "human"
          THEN <<[role |-> "user", text |-> Head(messages).text,
                  images |-> Head(messages).images]>>
          ELSE <<>>)
            \o UserMessages(Tail(messages))

SystemMessage == [role |-> "system", text |-> "context", images |-> 0]

_call_medgemma_hf_api(messages) == <<SystemMessage>> \o UserMessages(messages)

_call_medgemma_local(messages) == <<SystemMessage>> \o UserMessages(messages)

\* the messages ask builds: the last six history entries, then the question
AskMessages(history, question, include_images, images_b64) ==
    LET n == IF include_images /\ images_b64 # <<>>
             THEN Len(FirstN(images_b64, 4)) ELSE 0
        Turn(turn) == IF turn.role = "user" THEN HumanMessage(turn.content, 0)
                      ELSE AIMessage(turn.content)
        recent == LastN(history, 6)
    IN [i \in 1..Len(recent) |-> Turn(recent[i])] \o <<HumanMessage(question, n)>>

\* only the answer is recorded
UpdateHistoryAnswerOnly(history, question, r) ==
    history \o <<[role |-> "assistant", content |-> r]>>

\* the two appends after the model call returned
UpdateHistory(history, question, r) ==
    history \o <<[role |-> "user", content |-> question],
                 [role |-> "assistant", content |-> r]>>

ask ==
    /\ last_op # "idle"
    /\ Len(chat.history) < MaxHistory
    /\ \E question \in Questions, include_images \in BOOLEAN,
          use_local \in BOOLEAN, r \in ChatResponses \cup {"raise"} :
         LET messages == AskMessages(chat.history, question, include_images,
                                     chat.images_b64)
         IN /\ delivered' = IF use_local THEN _call_medgemma_local(messages)
                            ELSE _call_medgemma_hf_api(messages)
            /\ IF r = "raise"
               THEN /\ last_op' = "ask_raised"
                    /\ UNCHANGED <<chat, chat_out>>
               ELSE /\ chat' = [chat EXCEPT !.history =
                                   UpdateHistory(@, question, r)]
                    /\ chat_out' = r
                    /\ last_op' = "ask"
    /\ UNCHANGED <<extractVars, graphVars, searchVars, datasetVars>>

clear_history ==
    /\ last_op # "idle"
    /\ chat' = [chat EXCEPT !.history = <<>>]
    /\ last_op' = "clear_history"
    /\ UNCHANGED <<delivered, chat_out>>
    /\ UNCHANGED <<extractVars, graphVars, searchVars, datasetVars>>

ChatIdle ==
    /\ chat = CaseChat(initial_state("c1"))
    /\ delivered = <<>>
    /\ chat_out = ""
    /\ last_op = "idle"

InitChat ==
    /\ \E final_state \in ChatFinalStates : chat = CaseChat(final_state)
    /\ delivered = <<>>
    /\ chat_out = ""
    /\ last_op = "create_chat_session"
    /\ ExtractIdle
    /\ GraphIdle
    /\ SearchIdle
    /\ DatasetIdle

NextChat == ask \/ clear_history

SpecChat == InitChat /\ [][NextChat]_vars

\* C8: history always has even length and alternates user, assistant; an
\* ask that returns appends the question and then the response, an ask whose
\* model call raises leaves history as it was, and clear_history empties
\* history and leaves the case data, diagnosis and alternatives alone.
C8_HistoryAlternates ==
    /\ [](/\ Len(chat.history) % 2 = 0
          /\ \A i \in 1..Len(chat.history) :
                chat.history[i].role = IF i % 2 = 1 THEN "user" ELSE "assistant")
    /\ [][/\ last_op' = "ask" =>
               /\ Len(chat'.history) = Len(chat.history) + 2
               /\ SubSeq(chat'.history, 1, Len(chat.history)) = chat.history
               /\ chat'.history[Len(chat.history) + 1] =
                     [role |-> "user",
                      content |-> delivered'[Len(delivered')].text]
               /\ chat'.history[Len(chat.history) + 2] =
                     [role |-> "assistant", content |-> chat_out']
          /\ last_op' = "ask_raised" => chat' = chat
          /\ last_op' = "clear_history" =>
               chat' = [chat EXCEPT !.history = <<>>]]_vars

C8_Witness ==
    /\ last_op = "ask_raised"
    /\ Len(chat.history) = 4
    /\ chat.history[3].content # chat.history[1].content

\* C9: the request that reaches the model after an ask holds the system
\* prompt, then the at most six most recent entries of the history as it was
\* before the ask, user and assistant entries alike and in order, then the
\* new question.
C9_HistoryDelivered ==
    last_op = "ask" =>
      LET before == SubSeq(chat.history, 1, Len(chat.history) - 2)
          recent == LastN(before, 6)
          sent == Tail(delivered)
      IN /\ Len(sent) = Len(recent) + 1
         /\ \A i \in 1..Len(recent) :
               /\ sent[i].role = recent[i].role
               /\ sent[i].text = recent[i].content
         /\ sent[Len(sent)].role = "user"
         /\ sent[Len(sent)].text = chat.history[Len(chat.history) - 1].content

-----------------------------------------------------------------------------
(* POST /search *)

ContentTypes ==
    {"image/jpeg", "image/png", "image/webp", "image/gif", "application/pdf"}

AcceptedTypes == {"image/jpeg", "image/png", "image/webp", "image/gif"}

\* the uploaded bytes: an image, bytes PIL cannot decode, or a failing read
Files == {"image", "corrupt", "unreadable"}

\* the profile form field: absent, empty, JSON, or text that is not JSON
Profiles ==
    {NoneStr, <<>>, <<"{", "condition:", S, "}">>, <<"1">>, <<"{", "w">>}

\* the message of the exception generate_embedding raises, word by word
EmbedErrors ==
    {<<"503", "Server", "Error">>,
     <<"Service", "Unavailable">>,
     <<"HTTP", "503", "Service", "Unavailable">>,
     <<"Service", "temporarily", "Unavailable">>,
     <<"connection", "timed", "out">>}

EmbedOutcomes ==
    {[ok |-> TRUE, msg |-> <<>>]} \cup {[ok |-> FALSE, msg |-> m] : m \in EmbedErrors}

SearchOutcomes ==
    {[ok |-> TRUE, matches |-> <<>>], [ok |-> TRUE, matches |-> <<"m1", "m2">>],
     [ok |-> FALSE, matches |-> <<>>]}

Requests ==
    [content_type : ContentTypes, file : Files, profile : Profiles,
     limit : {1, 5}, embed : EmbedOutcomes, search_similar : SearchOutcomes,
     handled : {TRUE}]

\* phrase in msg
Contains(msg, phrase) ==
    \E i \in 1..Len(msg) :
        i + Len(phrase) - 1 <= Len(msg)
           /\ SubSeq(msg, i, i + Len(phrase) - 1) = phrase

\* only the status code text is recognised
EmbeddingFailureStatusCodeOnly(msg) ==
    IF Contains(msg, <<"503">>) THEN 503 ELSE 500

\* the except branch around generate_embedding
EmbeddingFailureStatus(msg) ==
    IF Contains(msg, <<"503">>) \/ Contains(msg, <<"Service", "Unavailable">>)
    THEN 503 ELSE 500

HTTPException(status, detail, made) ==
    [status |-> status, detail |-> detail, matches |-> <<>>, count |-> 0,
     stages |-> made]

StageCall(name, arg) == [call |-> name, profile_data |-> arg]

search(req) ==
    LET read == <<StageCall("file.read", None)>>
        opened == read \o <<StageCall("Image.open", None)>>
        hasProfile == req.profile # NoneStr /\ req.profile # <<>>
        loaded == JsonLoads(req.profile)
        parsed_profile == IF hasProfile /\ loaded # JSONDecodeError
                          THEN loaded ELSE None
        parsed == opened \o (IF hasProfile
                             THEN <<StageCall("json.loads", None)>> ELSE <<>>)
        embedded == parsed \o <<StageCall("generate_embedding", None)>>
        searched == embedded \o <<StageCall("search_similar", parsed_profile)>>
    IN IF req.content_type \notin AcceptedTypes
       THEN HTTPException(400, "Only image files are accepted", <<>>)
       ELSE IF req.file = "unreadable"
       THEN HTTPException(400, "Could not read image", read)
       ELSE IF req.file = "corrupt"
       THEN HTTPException(400, "Could not read image", opened)
       ELSE IF ~req.embed.ok
       THEN HTTPException(EmbeddingFailureStatus(req.embed.msg),
                          IF EmbeddingFailureStatus(req.embed.msg) = 503
                          THEN "model unavailable"
                          ELSE "Embedding generation failed",
                          embedded)
       ELSE IF ~req.search_similar.ok
       THEN HTTPException(500, "Qdrant search failed", searched)
       ELSE [status |-> 200, detail |-> "", matches |-> req.search_similar.matches,
             count |-> Len(req.search_similar.matches), stages |-> searched]

HandleSearch ==
    /\ ~http_request.handled
    /\ \E req \in Requests : \E out \in {search(req)} :
         /\ http_request' = req
         /\ http_response' = [status |-> out.status, detail |-> out.detail,
                              matches |-> out.matches, count |-> out.count]
         /\ stages' = out.stages
    /\ UNCHANGED <<extractVars, graphVars, chatVars, datasetVars>>

InitSearch ==
    /\ SearchIdle
    /\ DatasetIdle
    /\ ExtractIdle
    /\ GraphIdle
    /\ ChatIdle

NextSearch == HandleSearch

SpecSearch == InitSearch /\ [][NextSearch]_vars

StageNames == [i \in 1..Len(stages) |-> stages[i].call]

\* C10: the handler rejects a non-image content type with 400 before reading
\* the file, an unreadable or undecodable image with 400 before anything
\* else is called, an embedding failure with 503 when its message holds
\* "503" or "Service Unavailable" and with 500 otherwise, and a vector
\* search failure with 500; a profile that does not parse is no error, the
\* search then runs with no profile.  The calls are made in the order read,
\* decode, profile parse, embedding, vector search, and the vector search is
\* never called after a failed embedding.
C10_SearchStages ==
    http_request.handled =>
      LET req == http_request
          isImage == req.content_type \in {"image/jpeg", "image/png",
                                           "image/webp", "image/gif"}
          withProfile == req.profile # NoneStr /\ req.profile # <<>>
          full == <<"file.read", "Image.open">>
                    \o (IF withProfile THEN <<"json.loads">> ELSE <<>>)
                    \o <<"generate_embedding", "search_similar">>
          unavailable == \/ \E i \in 1..Len(req.embed.msg) : req.embed.msg[i] = "503"
                         \/ \E i \in 1..(Len(req.embed.msg) - 1) :
                               /\ req.embed.msg[i] = "Service"
                               /\ req.embed.msg[i + 1] = "Unavailable"
      IN /\ IsPrefix(StageNames, full)
         /\ ~isImage => http_response.status = 400 /\ stages = <<>>
         /\ (isImage /\ req.file # "image") =>
               /\ http_response.status = 400
               /\ \A i \in 1..Len(stages) :
                     stages[i].call \in {"file.read", "Image.open"}
         /\ (isImage /\ req.file = "image" /\ ~req.embed.ok) =>
               /\ http_response.status = IF unavailable THEN 503 ELSE 500
               /\ \A i \in 1..Len(stages) : stages[i].call # "search_similar"
         /\ (isImage /\ req.file = "image" /\ req.embed.ok) =>
               /\ StageNames = full
               /\ http_response.status = IF req.search_similar.ok THEN 200 ELSE 500
               /\ req.search_similar.ok =>
                     http_response.count = Len(req.search_similar.matches)
               /\ (withProfile /\ JsonLoads(req.profile) = JSONDecodeError) =>
                     stages[Len(stages)].profile_data = None

\* "Service Unavailable" without the status code answered 503, and no
\* vector search was made
C10_Witness ==
    /\ http_request.handled
    /\ http_response.status = 503
    /\ http_request.embed.msg = <<"Service", "Unavailable">>
    /\ http_request.profile = <<"{", "w">>
    /\ Len(stages) = 4

-----------------------------------------------------------------------------
(* POST /compare_insights *)

\* match_image_url: absent, empty, not an http URL, an http URL
MatchUrls == {"None", "", "file:", "http:"}

\* what fetching the matched image gives: a decodable image, a status other
\* than 200, bytes PIL cannot decode, or an exception of the client
FetchOutcomes == {"image", "status404", "corrupt", "raise"}

\* match_payload: absent, empty, text that is not JSON, and JSON documents
MatchPayloads ==
    {NoneStr, <<>>, <<"{", "w">>,
     <<"{", "}">>,
     <<"{", "presentation:", "{", "hpi:", S, "}", "outcome:", "{", "detail:", S, "}", "}">>,
     <<"{", "presentation:", "{", "}", "}">>,
     <<"{", "presentation:", S, "}">>,
     <<"{", "outcome:", "1", "}">>,
     <<"[", "]">>,
     <<"1">>}

\* the text of a generated_text, piece by piece:
\*   "Prompt"  the prompt echoed back
\*   "Box"     "[100, 200, 300, 400]"
\*   "boxed{"  the opening of a LaTeX box, closed by "}"
\*   "s1".."s7" one sentence each
GeneratedTexts ==
    {<<>>,
     <<"Box">>,
     <<"s1", "s2">>,
     <<"Prompt", "s1", "Box">>,
     <<Fence, "s1", "s2", Fence>>,
     <<"boxed{", "s1", "s2", "}">>,
     <<"s1", "s2", "s1", "s3", "s2", "s4", "s5", "s6", "s7">>}

\* what query_medgemma gives: an exception, a value that is no list, an empty
\* list, a list of strings, a list of a dict without generated_text, with a
\* generated_text that is a number, or with a generated_text that is text
MedGemmaResponses ==
    {[kind |-> k, text |-> <<>>] :
        k \in {"raise", "dict", "empty", "list_of_str", "no_text_key",
               "number_text"}}
      \cup {[kind |-> "text", text |-> t] : t \in GeneratedTexts}

\* the first eight hex digits of the md5 of diagnosis and URL
HashValues == {0, 123456789, 2147483647}

\* the answers to the two box queries
BoxResponses ==
    {r \in MedGemmaResponses :
        \/ r.kind \in {"raise", "empty", "no_text_key"}
        \/ r.kind = "text" /\ r.text \in {<<"Box">>, <<"s1", "s2">>}}

\* the matched image is fetched only from an http URL
MatchImages ==
    {[url |-> u, fetch |-> "none"] : u \in MatchUrls \ {"http:"}}
      \cup {[url |-> "http:", fetch |-> f] : f \in FetchOutcomes}

InsightRequests ==
    {[original |-> o, match_image_url |-> m.url, fetch |-> m.fetch,
      match_payload |-> p, h |-> h, orig_query |-> q1, match_query |-> q2,
      unified_query |-> q3, handled |-> TRUE] :
        o \in Files, m \in MatchImages, p \in MatchPayloads, h \in HashValues,
        q1 \in BoxResponses, q2 \in BoxResponses, q3 \in MedGemmaResponses}

NoBox == <<>>

Max2(a, b) == IF a >= b THEN a ELSE b
Min2(a, b) == IF a <= b THEN a ELSE b

HasToken(txt, tok) == \E i \in 1..Len(txt) : txt[i] = tok

\* parse_box: the regular expression module it names is the local name of
\* the enclosing handler, bound by the import statement of line 223
parse_box(box_text, re_bound) ==
    IF ~re_bound THEN "NameError"
    ELSE IF HasToken(box_text, "Box") THEN <<100, 200, 300, 400>>
    ELSE NoBox

\* the try block around one box query; the import of line 223 has not run
\* when it is entered
BoxQuery(resp) ==
    IF resp.kind \in {"raise", "dict", "empty", "list_of_str"} THEN NoBox
    ELSE \* resp[0].get("generated_text", "")
         LET box_text == IF resp.kind = "text" THEN resp.text ELSE <<>>
             parsed == IF resp.kind = "number_text" THEN "TypeError"
                       ELSE parse_box(box_text, FALSE)
         IN IF parsed \in {"NameError", "TypeError"} THEN NoBox ELSE parsed

SimulatedOrigBox(h) ==
    LET y_center == 200 + (h % 500)
        x_center == 200 + ((h \div 500) % 500)
        box_size == 150 + (h % 200)
    IN <<Max2(0, y_center - (box_size \div 2)),
         Max2(0, x_center - (box_size \div 2)),
         Min2(1000, y_center + (box_size \div 2)),
         Min2(1000, x_center + (box_size \div 2))>>

SimulatedMatchBox(h, orig_box) ==
    LET y_shift == (h % 100) - 50
        x_shift == ((h \div 100) % 100) - 50
    IN <<Max2(0, orig_box[1] + y_shift),
         Max2(0, orig_box[2] + x_shift),
         Min2(1000, orig_box[3] + y_shift),
         Min2(1000, orig_box[4] + x_shift)>>

get_region_text(box) ==
    IF box = NoBox THEN <<"an unspecified region">>
    ELSE LET ysum == box[1] + box[3]
             xsum == box[2] + box[4]
         IN <<IF ysum < 666 THEN "upper" ELSE IF ysum < 1332 THEN "mid" ELSE "lower",
              IF xsum < 666 THEN "left" ELSE IF xsum < 1332 THEN "central"
              ELSE "right">>

\* the boxed notation is replaced by what it holds
RECURSIVE Unbox(_, _)
Unbox(raw, open) ==
    IF raw = <<>> THEN <<>>
    ELSE IF ~open /\ Head(raw) = "boxed{" /\ Len(raw) >= 3
               /\ \E i \in 3..Len(raw) : raw[i] = "}"
    THEN Unbox(Tail(raw), TRUE)
    ELSE IF open /\ Head(raw) = "}" THEN Unbox(Tail(raw), FALSE)
    ELSE <<Head(raw)>> \o Unbox(Tail(raw), open /\ Head(raw) # "}")

\* the loop over the sentences: a sentence seen before is dropped, and the
\* loop ends once six are kept
RECURSIVE Dedupe(_, _)
Dedupe(sentences, deduped) ==
    IF sentences = <<>> THEN deduped
    ELSE LET kept == IF HasToken(deduped, Head(sentences)) THEN deduped
                     ELSE Append(deduped, Head(sentences))
         IN IF Len(kept) >= 6 THEN kept ELSE Dedupe(Tail(sentences), kept)

CleanText(raw) ==
    LET noEcho == IF raw # <<>> /\ Head(raw) = "Prompt" THEN Tail(raw) ELSE raw
        noLead == IF noEcho # <<>> /\ Head(noEcho) = Fence THEN Tail(noEcho)
                  ELSE noEcho
        noTrail == IF noLead # <<>> /\ noLead[Len(noLead)] = Fence
                   THEN SubSeq(noLead, 1, Len(noLead) - 1) ELSE noLead
    IN Dedupe(Unbox(noTrail, FALSE), <<>>)

\* the try block around the unified query
InsightsText(resp) ==
    IF resp.kind \in {"raise", "list_of_str", "number_text"}
    THEN <<"Unable to complete AI analysis at this time.">>
    ELSE IF resp.kind = "text" /\ resp.text # <<>> THEN CleanText(resp.text)
    ELSE <<"AI analysis unavailable.">>

\* parsed_payload.get(outer, {}).get(inner, ""): the value, or AttributeError
\* when either receiver is no dict
PayloadField(parsed_payload, outer, inner) ==
    IF ~IsDict(parsed_payload) THEN "AttributeError"
    ELSE IF ~IsDict(Get(parsed_payload, outer, Obj(<<>>, <<>>)))
    THEN "AttributeError"
    ELSE "value"

InsightsResponse(status, detail, gen_text, orig_box, match_box, made) ==
    [status |-> status, detail |-> detail, insights_text |-> gen_text,
     original_box |-> orig_box, match_box |-> match_box, stages |-> made]

compare_insights(req) ==
    LET has_url == req.match_image_url = "http:"
        match_pil == has_url /\ req.fetch = "image"
        has_payload == req.match_payload # NoneStr /\ req.match_payload # <<>>
        loaded == JsonLoads(req.match_payload)
        parsed_payload == IF has_payload /\ loaded # JSONDecodeError THEN loaded
                          ELSE Obj(<<>>, <<>>)
        model_orig == BoxQuery(req.orig_query)
        model_match == IF match_pil THEN BoxQuery(req.match_query) ELSE NoBox
        orig_box == IF model_orig = NoBox THEN SimulatedOrigBox(req.h)
                    ELSE model_orig
        match_box == IF model_match = NoBox
                     THEN SimulatedMatchBox(req.h, orig_box) ELSE model_match
        fetched == <<StageCall("file.read", None), StageCall("Image.open", None)>>
                     \o (IF has_url THEN <<StageCall("client.get", None)>> ELSE <<>>)
                     \o (IF has_payload THEN <<StageCall("json.loads", None)>>
                         ELSE <<>>)
        boxed == fetched \o <<StageCall("query_medgemma", <<"box">>)>>
                   \o (IF match_pil THEN <<StageCall("query_medgemma", <<"box">>)>>
                       ELSE <<>>)
        unified == boxed \o <<StageCall("query_medgemma",
                                get_region_text(orig_box)
                                  \o get_region_text(match_box))>>
    IN IF req.original = "unreadable"
       THEN InsightsResponse(400, "Could not read original image", NoneStr,
                             NoBox, NoBox, <<StageCall("file.read", None)>>)
       ELSE IF req.original = "corrupt"
       THEN InsightsResponse(400, "Could not read original image", NoneStr,
                             NoBox, NoBox, SubSeq(fetched, 1, 2))
       ELSE IF "AttributeError" \in
                 {PayloadField(parsed_payload, "presentation:", "hpi:"),
                  PayloadField(parsed_payload, "outcome:", "detail:")}
       THEN InsightsResponse(500, "Internal Server Error", NoneStr, NoBox,
                             NoBox, boxed)
       ELSE InsightsResponse(200, "", InsightsText(req.unified_query),
                             orig_box, match_box, unified)

HandleCompareInsights ==
    /\ ~http_request.handled
    /\ \E req \in InsightRequests : \E out \in {compare_insights(req)} :
         /\ http_request' = req
         /\ http_response' = [status |-> out.status, detail |-> out.detail,
                              insights_text |-> out.insights_text,
                              original_box |-> out.original_box,
                              match_box |-> out.match_box]
         /\ stages' = out.stages
    /\ UNCHANGED <<extractVars, graphVars, chatVars, datasetVars>>

InitInsights ==
    /\ SearchIdle
    /\ DatasetIdle
    /\ ExtractIdle
    /\ GraphIdle
    /\ ChatIdle

NextInsights == HandleCompareInsights

SpecInsights == InitInsights /\ [][NextInsights]_vars

IsBox(box) == Len(box) = 4 /\ \A i \in 1..4 : box[i] \in Int

\* C11: a request whose original image decodes is answered 200 with an
\* original_box and a match_box of four integers each and an insights_text,
\* whatever the model calls return or raise and whether or not the matched
\* image was fetched.
C11_BoxesNeverNull ==
    (http_request.handled /\ http_request.original = "image") =>
       /\ http_response.status = 200
       /\ IsBox(http_response.original_box)
       /\ IsBox(http_response.match_box)
       /\ http_response.insights_text # NoneStr

-----------------------------------------------------------------------------
(* POST /search_hospitals *)

\* os.getenv("YDC_API_KEY"): unset, empty, set
ApiKeys == {"None", "", "key"}

\* location: absent, empty, a place name, coordinates, text with a comma whose
\* second part is no number
Locations == {"None", "", "Boston", "28.5,-81.3", "28.5,east"}

\* what a Nominatim call gives: a place, nothing, an exception
GeoOutcomes == {"found", "none", "raise"}

\* what the OSRM request gives: a route of that many seconds, a reply with no
\* route, a status other than 200, an exception
OsrmOutcomes ==
    {[kind |-> "route", duration |-> 1500], [kind |-> "route", duration |-> 7500],
     [kind |-> "no_route", duration |-> 0], [kind |-> "status500", duration |-> 0],
     [kind |-> "raise", duration |-> 0]}

\* words that make a title too generic to name a hospital
generic_terms ==
    {"interventional", "radiology", "imaging", "mri", "ct", "paragonimiasis",
     "services", "treatment", "clinic"}

\* one web result: the title word by word ("|" and "-" are the separators the
\* name is cut at), the host name of the url word by word, the description
\* and the snippets
WebHit(title, domain, description, snippets) ==
    [title |-> title, domain |-> domain, description |-> description,
     snippets |-> snippets]

WebHits ==
    {WebHit(<<"st", "jude", "|", "home">>, <<"stjude">>, "text", "list"),
     WebHit(<<"st", "jude", "-", "memphis">>, <<"stjude">>, "", "list"),
     WebHit(<<"radiology", "services">>, <<"mass", "general">>, "long", "missing"),
     WebHit(<<"...">>, <<>>, "", "missing"),
     WebHit(NoneStr, <<>>, "", "missing"),
     WebHit(<<"st", "luke">>, <<"stluke">>, "text", "number"),
     WebHit(<<"not a dict">>, <<>>, "", "missing")}

\* the most web results a reply holds
MaxHits == 2

\* what the search request gives: an exception of the client, an error
\* status, a body that is no JSON, or the decoded body
SearchReplies ==
    {[kind |-> k, web |-> <<>>] :
        k \in {"raise", "http_error", "bad_json", "list", "results_null",
               "web_null", "no_results"}}
      \cup {[kind |-> "results", web |-> w] : w \in SeqsUpTo(WebHits, MaxHits)}

HospitalRequests ==
    [ydc_api_key : ApiKeys, location : Locations, user_geo : GeoOutcomes,
     reply : SearchReplies, hit_geo : GeoOutcomes, osrm : OsrmOutcomes,
     handled : {TRUE}]

IsHitDict(hit) == hit.title # <<"not a dict">>

\* the first loop over the results joins the snippets of every hit
SnippetsRaise(web_results) ==
    \E i \in 1..Len(web_results) :
        ~IsHitDict(web_results[i]) \/ web_results[i].snippets = "number"

\* title.split(" | ")[0].split(" - ")[0]
RECURSIVE FirstSegment(_)
FirstSegment(title) ==
    IF title = <<>> \/ Head(title) \in {"|", "-"} THEN <<>>
    ELSE <<Head(title)>> \o FirstSegment(Tail(title))

\* the name of a hit when n centers were built before it
HospitalName(hit, n) ==
    LET title == IF hit.title = NoneStr
                 THEN <<"top", "hospital", ToString(n + 1)>> ELSE hit.title
        segment == FirstSegment(title)
        named == IF \E i \in 1..Len(segment) : segment[i] \in generic_terms
                 THEN hit.domain \o <<"hospital">> ELSE segment
        stripped == SelectSeq(named, LAMBDA w : w # "...")
    IN IF stripped = <<>> THEN <<"medical", "center", ToString(n + 1)>>
       ELSE stripped

\* the travel time of the hit at index i
TravelTime(i, osrm) ==
    IF osrm.kind = "route"
    THEN LET hours == osrm.duration \div 3600
             minutes == (osrm.duration % 3600) \div 60
         IN IF hours > 0 THEN <<hours, minutes>> ELSE <<0, minutes>>
    ELSE <<1 + i, (i * 15) % 60>>

\* raw_desc[:350] + "..."
FinalReason(hit) ==
    IF hit.description = "long" THEN <<"text350", "...">>
    ELSE IF hit.description = "text" THEN <<"text">>
    ELSE IF hit.snippets = "list" THEN <<"snippets">>
    ELSE <<"Specialized care facility.">>

\* the coordinates of a hit: geocode_loc exists only when the handler took
\* the branch that defines it
HitPosition(user_pos, geocode_loc_bound, hit_geo) ==
    IF geocode_loc_bound /\ hit_geo = "found" THEN "geocoded"
    ELSE user_pos \o "+fuzz"

max_centers == 10

\* the loop that builds the centers; i counts from 0 as enumerate does
RECURSIVE BuildCenters(_, _, _, _, _, _, _)
BuildCenters(web_results, i, centers, seen_names, user_pos, bound, req) ==
    IF i >= Len(web_results) \/ Len(centers) >= max_centers THEN centers
    ELSE LET hit == web_results[i + 1]
             name == HospitalName(hit, Len(centers))
         IN IF name \in seen_names
            THEN BuildCenters(web_results, i + 1, centers, seen_names,
                              user_pos, bound, req)
            ELSE BuildCenters(web_results, i + 1,
                   Append(centers,
                          [name |-> name, url |-> hit.domain,
                           capability |-> 99 - i,
                           travel |-> TravelTime(i, req.osrm),
                           reason |-> FinalReason(hit),
                           position |-> HitPosition(user_pos, bound, req.hit_geo)]),
                   seen_names \cup {name}, user_pos, bound, req)

FallbackCenters ==
    <<[name |-> <<"mayo", "clinic", "rochester">>, url |-> <<"mayoclinic">>,
       capability |-> 100, travel |-> <<2, 10>>,
       reason |-> <<"Interventional Pulmonology">>, position |-> "44.0227,-92.4667"],
      [name |-> <<"cleveland", "clinic">>, url |-> <<"clevelandclinic">>,
       capability |-> 95, travel |-> <<1, 55>>,
       reason |-> <<"Thoracic surgery">>, position |-> "41.5034,-81.6206"],
      [name |-> <<"mass", "general">>, url |-> <<"massgeneral">>,
       capability |-> 90, travel |-> <<3, 5>>,
       reason |-> <<"Radiation oncology">>, position |-> "42.3621,-71.0691"]>>

\* an empty list is returned as it is
CentersOrFallbackAllowEmpty(centers) == centers

\* if centers: return them, else raise ValueError, which the handler of the
\* try block turns into the fallback
CentersOrFallback(centers) ==
    IF centers # <<>> THEN centers ELSE FallbackCenters

\* the body of the try block
SearchAndBuild(req, user_pos, bound) ==
    IF req.reply.kind # "results" /\ req.reply.kind # "no_results"
    THEN FallbackCenters
    ELSE IF SnippetsRaise(req.reply.web) THEN FallbackCenters
    ELSE CentersOrFallback(
           BuildCenters(req.reply.web, 0, <<>>, {}, user_pos, bound, req))

search_hospitals(req) ==
    LET has_location == req.location \notin {"None", ""}
        is_coords == req.location = "28.5,-81.3"
        half_parsed == req.location = "28.5,east"
        geocode_loc_bound == has_location /\ ~is_coords
        user_pos == IF is_coords THEN "parsed"
                    ELSE IF geocode_loc_bound /\ req.user_geo = "found"
                    THEN "geocoded"
                    ELSE IF half_parsed THEN "parsed_lat" ELSE "default"
        located == IF is_coords THEN <<StageCall("geolocator.reverse", None)>>
                   ELSE IF has_location
                   THEN <<StageCall("geolocator.geocode", None)>>
                   ELSE <<>>
    IN IF req.ydc_api_key \in {"None", ""}
       THEN [status |-> 500, detail |-> "YDC_API_KEY environment variable is missing.",
             centers |-> <<>>, stages |-> <<>>]
       ELSE [status |-> 200, detail |-> "",
             centers |-> SearchAndBuild(req, user_pos, geocode_loc_bound),
             stages |-> located \o <<StageCall("client.get", None)>>]

HandleSearchHospitals ==
    /\ ~http_request.handled
    /\ \E req \in HospitalRequests : \E out \in {search_hospitals(req)} :
         /\ http_request' = req
         /\ http_response' = [status |-> out.status, detail |-> out.detail,
                              centers |-> out.centers]
         /\ stages' = out.stages
    /\ UNCHANGED <<extractVars, graphVars, chatVars, datasetVars>>

InitHospitals ==
    /\ SearchIdle
    /\ DatasetIdle
    /\ ExtractIdle
    /\ GraphIdle
    /\ ChatIdle

NextHospitals == HandleSearchHospitals

SpecHospitals == InitHospitals /\ [][NextHospitals]_vars

-----------------------------------------------------------------------------
(* POST /extract *)

\* the clinical text, phrase by phrase
NoteWords == {"cough", "consolidated", "pleural fluid", "edema"}

\* the longest notes field, in phrases
MaxNotes == 2

\* the generated_text of the model, phrase by phrase
InsightTexts ==
    {<<>>, <<"cough">>, <<"enlarged heart">>,
     <<"hydropneumothorax", "collapse">>}

\* an uploaded file: its name and what reading and decoding it gives
Uploads ==
    [filename : {"", "cxr.png", "effusion_ct.png"}, file : Files]

\* images: absent, an empty list, a list whose first element is the upload
ImageLists ==
    {[present |-> FALSE, list |-> <<>>], [present |-> TRUE, list |-> <<>>]}
      \cup {[present |-> TRUE, list |-> <<u>>] : u \in Uploads}

\* notes_file: absent, unreadable, readable
NotesFiles ==
    {[present |-> FALSE, readable |-> FALSE, content |-> <<>>],
     [present |-> TRUE, readable |-> FALSE, content |-> <<>>],
     [present |-> TRUE, readable |-> TRUE, content |-> <<"edema">>],
     [present |-> TRUE, readable |-> TRUE, content |-> <<"cough">>]}

\* what query_medgemma gives on this route
ProfileResponses ==
    {[kind |-> k, text |-> <<>>] :
        k \in {"raise", "dict", "empty", "list_of_str", "no_text_key"}}
      \cup {[kind |-> "text", text |-> t] : t \in InsightTexts}

ExtractRequests ==
    [images : ImageLists, notes : SeqsUpTo(NoteWords, MaxNotes),
     notes_file : NotesFiles, response : ProfileResponses, handled : {TRUE}]

\* the regular expressions of the findings, as the phrases they match
FindingPatterns ==
    [consolidation_present |-> {"consolidation", "consolidated"},
     atelectasis_present |-> {"atelectasis", "collapse"},
     edema_present |-> {"edema", "pulmonary edema"},
     effusion_present |-> {"effusion", "pleural fluid", "effusion_ct.png"},
     pneumothorax_present |-> {"pneumothorax", "hydropneumothorax"},
     cardiomegaly |-> {"cardiomegaly", "enlarged heart"}]

\* re.search(pattern, txt, re.I)
Search(pattern, txt) == \E i \in 1..Len(txt) : txt[i] \in pattern

\* the findings as the profile is created
DefaultFindings ==
    [consolidation_present |-> "no", atelectasis_present |-> "no",
     edema_present |-> "no", effusion_present |-> "no",
     pneumothorax_present |-> "no", cardiomegaly |-> "no",
     mediastinal_widening |-> "no", lines_tubes_present |-> "no"]

\* the file names are searched as well
AnalysisTextWithNames(notes_text, medgemma_insight, image_names) ==
    notes_text \o medgemma_insight \o image_names

\* analysis_text = text + "\n" + medgemma_insight
AnalysisText(notes_text, medgemma_insight, image_names) ==
    notes_text \o medgemma_insight

FindingsOf(analysis_text) ==
    [f \in DOMAIN DefaultFindings |->
        IF f \in DOMAIN FindingPatterns /\ Search(FindingPatterns[f], analysis_text)
        THEN "yes" ELSE DefaultFindings[f]]

\* the modality the study section derives from the notes and file names
Modality(combined, image_names) ==
    IF Search({"effusion_ct.png"}, combined) THEN "CT"
    ELSE IF Search({"cxr.png"}, combined) THEN "CXR"
    ELSE IF image_names # <<>> THEN "Imaging"
    ELSE "None"

\* [img.filename for img in images if img.filename] if images else []
ImageNames(images) ==
    IF ~images.present THEN <<>>
    ELSE SelectSeq([i \in 1..Len(images.list) |-> images.list[i].filename],
                   LAMBDA n : n # "")

\* the text of the notes field and, when it can be read, of the notes file
NotesText(req) ==
    IF req.notes_file.present /\ req.notes_file.readable
    THEN req.notes \o req.notes_file.content ELSE req.notes

\* the try block of _extract_profile: what the model's answer leaves in
\* medgemma_insight
MedGemmaInsight(req, queried) ==
    IF queried /\ req.response.kind = "text" THEN req.response.text ELSE <<>>

_extract_profile(req) ==
    LET has_images == req.images.present /\ Len(req.images.list) > 0
        queried == has_images /\ req.images.list[1].file = "image"
        image_names == ImageNames(req.images)
        notes_text == NotesText(req)
        medgemma_insight == MedGemmaInsight(req, queried)
    IN [findings |-> FindingsOf(AnalysisText(notes_text, medgemma_insight,
                                             image_names)),
        modality |-> Modality(notes_text \o image_names, image_names),
        one_liner |-> IF medgemma_insight # <<>> THEN medgemma_insight
                      ELSE NoneStr,
        hpi |-> notes_text,
        stages |-> (IF req.notes_file.present
                    THEN <<StageCall("notes_file.read", None)>> ELSE <<>>)
                     \o (IF has_images THEN <<StageCall("file.read", None)>>
                         ELSE <<>>)
                     \o (IF has_images /\ req.images.list[1].file # "unreadable"
                         THEN <<StageCall("Image.open", None)>> ELSE <<>>)
                     \o (IF queried
                         THEN <<StageCall("query_medgemma", notes_text)>>
                         ELSE <<>>)]

HandleExtract ==
    /\ ~http_request.handled
    /\ \E req \in ExtractRequests : \E out \in {_extract_profile(req)} :
         /\ http_request' = req
         /\ http_response' = [status |-> 200, detail |-> "",
                              profile |-> [findings |-> out.findings,
                                           modality |-> out.modality,
                                           one_liner |-> out.one_liner,
                                           hpi |-> out.hpi]]
         /\ stages' = out.stages
    /\ UNCHANGED <<extractVars, graphVars, chatVars, datasetVars>>

InitProfile ==
    /\ SearchIdle
    /\ DatasetIdle
    /\ ExtractIdle
    /\ GraphIdle
    /\ ChatIdle

NextProfile == HandleExtract

SpecProfile == InitProfile /\ [][NextProfile]_vars

ModelQueries == SelectSeq(stages, LAMBDA c : c.call = "query_medgemma")

-----------------------------------------------------------------------------
(* analyze_hospital_staff and POST /analyze_hospital_page *)

\* the most entries an array of the extractor holds
MaxSpecialists == 6

\* one entry of the array the extractor is asked for, and entries of other
\* types
SpecialistEntries == {Obj(<<"name:">>, <<Str(S)>>), Num}

\* the JSON documents the final output may hold
StaffDocuments ==
    {JsonDumps(Arr(a)) : a \in SeqsUpTo(SpecialistEntries, MaxSpecialists)}
      \cup {JsonDumps(Obj(<<"name:">>, <<Str(S)>>)), JsonDumps(Num),
            <<"[", "{", "name:">>, <<"w">>, <<>>}

\* how the final output wraps the document
StaffWrappings ==
    {"bare", "json_fenced", "fenced", "unclosed", "prefixed", "suffixed"}

WrapOutput(doc, how) ==
    CASE how = "bare" -> doc
      [] how = "json_fenced" -> <<FenceJson>> \o doc \o <<Fence>>
      [] how = "fenced" -> <<Fence>> \o doc \o <<Fence>>
      [] how = "unclosed" -> <<FenceJson>> \o doc
      [] how = "prefixed" -> <<"w", FenceJson>> \o doc \o <<Fence>>
      [] how = "suffixed" -> doc \o <<"w">>

\* what running the crew gives: an exception, a result whose raw is no
\* string, or a result with its raw text; and whether building the agents
\* raised before the crew ran
StaffRequests ==
    {[setup |-> s, crew |-> c, doc |-> <<>>, wrap |-> "bare", handled |-> TRUE] :
        s \in {"ok", "raise"}, c \in {"raise", "raw_none"}}
      \cup {[setup |-> s, crew |-> "raw", doc |-> d, wrap |-> w, handled |-> TRUE] :
              s \in {"ok", "raise"}, d \in StaffDocuments, w \in StaffWrappings}

\* the two prefixes are tried one after the other, then the suffix
StripFences(output_str) ==
    LET a == IF output_str # <<>> /\ Head(output_str) = FenceJson
             THEN Tail(output_str) ELSE output_str
        b == IF a # <<>> /\ Head(a) = Fence THEN Tail(a) ELSE a
    IN IF b # <<>> /\ b[Len(b)] = Fence THEN SubSeq(b, 1, Len(b) - 1) ELSE b

\* the whole array is returned
AllEntries(data) == data.c

\* data[:5]
FirstFive(data) == FirstN(data.c, 5)

StaffResult(returned, data) == [returned |-> returned, data |-> data]

analyze_hospital_staff(req) ==
    IF req.setup = "raise" THEN StaffResult(FALSE, <<>>)
    ELSE IF req.crew \in {"raise", "raw_none"} THEN StaffResult(TRUE, <<>>)
    ELSE Bind(JsonLoads(StripFences(WrapOutput(req.doc, req.wrap))),
              LAMBDA data :
                IF data # JSONDecodeError /\ IsList(data)
                THEN StaffResult(TRUE, FirstFive(data))
                ELSE StaffResult(TRUE, <<>>))

analyze_hospital_page(req) ==
    Bind(analyze_hospital_staff(req), LAMBDA r :
      [status |-> 200,
       specialists |-> r.data,
       error |-> IF r.returned THEN "" ELSE "str(e)",
       stages |-> <<StageCall("agents.analyze_hospital_staff", r)>>])

HandleAnalyzeHospitalPage ==
    /\ ~http_request.handled
    /\ \E req \in StaffRequests : \E out \in {analyze_hospital_page(req)} :
         /\ http_request' = req
         /\ http_response' = [status |-> out.status,
                              specialists |-> out.specialists,
                              error |-> out.error]
         /\ stages' = out.stages
    /\ UNCHANGED <<extractVars, graphVars, chatVars, datasetVars>>

InitStaff ==
    /\ SearchIdle
    /\ DatasetIdle
    /\ ExtractIdle
    /\ GraphIdle
    /\ ChatIdle

NextStaff == HandleAnalyzeHospitalPage

SpecStaff == InitStaff /\ [][NextStaff]_vars

\* C14: what analyze_hospital_staff returns is a list of at most five
\* entries, the first five of the array the output holds; it is the empty
\* list when the crew run raised, when the output is not valid JSON once the
\* code fences around it are removed, and when the output is JSON but no
\* array; the endpoint answers 200 with a specialists list in every case.
C14_AtMostFive ==
    http_request.handled =>
      LET req == http_request
          result == stages[1].profile_data
          parsed == JsonLoads(req.doc)
          stripped == req.wrap \in {"bare", "json_fenced", "fenced", "unclosed"}
          invalid == ~stripped \/ parsed = JSONDecodeError
      IN /\ result.returned => Len(result.data) <= 5
         /\ req.setup = "ok" =>
               /\ result.returned
               /\ (req.crew # "raw" \/ invalid \/ parsed.t # "arr") =>
                     result.data = <<>>
               /\ (req.crew = "raw" /\ ~invalid /\ parsed.t = "arr") =>
                     /\ Len(result.data) = Min({5, Len(parsed.c)})
                     /\ \A i \in 1..Len(result.data) : result.data[i] = parsed.c[i]
         /\ http_response.status = 200
         /\ Len(http_response.specialists) <= 5
         /\ result.returned => http_response.specialists = result.data

\* a fenced array of six entries was cut to five
C14_Witness ==
    /\ http_request.handled
    /\ http_request.setup = "ok"
    /\ http_request.crew = "raw"
    /\ http_request.wrap = "json_fenced"
    /\ Len(http_request.doc) > 7
    /\ JsonLoads(http_request.doc).t = "arr"
    /\ Len(JsonLoads(http_request.doc).c) = 6
    /\ Len(http_response.specialists) = 5

-----------------------------------------------------------------------------
(* build_schema_dataset *)

\* the most records the input file holds
MaxRecords == 2

\* the most runs of the script
MaxRuns == 2

\* what one generate_content request gives: text that parses to an object,
\* text that parses to another JSON value, text that does not parse, an
\* exception, an exception that names the quota
GeminiAnswers == {"dict", "list", "bad_json", "error", "quota"}

\* for attempt in range(4)
max_attempts == 4

\* call_gemini: the requests are repeated until an answer parses; after the
\* last attempt the result is the empty object
RECURSIVE call_gemini(_, _)
call_gemini(answers, attempt) ==
    IF attempt > max_attempts THEN [extracted |-> "empty_dict", sent |-> max_attempts]
    ELSE IF answers[attempt] \in {"dict", "list"}
    THEN [extracted |-> answers[attempt], sent |-> attempt]
    ELSE call_gemini(answers, attempt + 1)

\* build_record: e.get raises when the extraction is no object
build_record(pmc_id, extracted) ==
    IF extracted \in {"dict", "empty_dict"}
    THEN [ok |-> TRUE, pmc_id |-> pmc_id, fields |-> extracted]
    ELSE [ok |-> FALSE, pmc_id |-> pmc_id, fields |-> "AttributeError"]

\* the cache is never found
CacheNeverExists(c, pmc_id) == FALSE

\* cache_file.exists()
CacheExists(c, pmc_id) == c[pmc_id] # "absent"

\* main up to the loop: the input file is read and the lists are empty
StartRun ==
    /\ cursor = 0
    /\ runs < MaxRuns
    /\ cursor' = 1
    /\ results' = <<>>
    /\ errors' = <<>>
    /\ runs' = runs + 1
    /\ UNCHANGED <<source_data, cache, extractions, requests>>
    /\ UNCHANGED <<extractVars, graphVars, chatVars, searchVars>>

\* one pass of the loop body
ProcessRecord ==
    /\ cursor >= 1
    /\ cursor <= Len(source_data)
    /\ \E answers \in [1..max_attempts -> GeminiAnswers] :
         LET pmc_id == source_data[cursor]
             hit == CacheExists(cache, pmc_id)
             called == call_gemini(answers, 1)
             extracted == IF hit THEN cache[pmc_id] ELSE called.extracted
             schema_record == build_record(pmc_id, extracted)
         IN /\ cache' = IF hit THEN cache
                        ELSE [cache EXCEPT ![pmc_id] = called.extracted]
            /\ extractions' = IF hit THEN extractions
                              ELSE [extractions EXCEPT ![pmc_id] = @ + 1]
            /\ requests' = IF hit THEN requests
                           ELSE [requests EXCEPT ![pmc_id] = @ + called.sent]
            /\ results' = IF schema_record.ok
                          THEN Append(results, schema_record) ELSE results
            /\ errors' = IF schema_record.ok THEN errors
                         ELSE Append(errors, schema_record)
    /\ cursor' = cursor + 1
    /\ UNCHANGED <<source_data, runs>>
    /\ UNCHANGED <<extractVars, graphVars, chatVars, searchVars>>

\* the run is stopped between two records: what it held in memory is lost,
\* the cache files stay
Interrupt ==
    /\ cursor >= 1
    /\ cursor <= Len(source_data)
    /\ cursor' = 0
    /\ results' = <<>>
    /\ errors' = <<>>
    /\ UNCHANGED <<source_data, cache, extractions, requests, runs>>
    /\ UNCHANGED <<extractVars, graphVars, chatVars, searchVars>>

\* main after the loop: the output and the errors are written
WriteOutput ==
    /\ cursor = Len(source_data) + 1
    /\ cursor' = 0
    /\ UNCHANGED <<source_data, cache, results, errors, extractions, requests,
                   runs>>
    /\ UNCHANGED <<extractVars, graphVars, chatVars, searchVars>>

InitDataset ==
    /\ source_data \in SeqsUpTo(PMCIDs, MaxRecords)
    /\ cache = [p \in PMCIDs |-> "absent"]
    /\ cursor = 0
    /\ results = <<>>
    /\ errors = <<>>
    /\ extractions = [p \in PMCIDs |-> 0]
    /\ requests = [p \in PMCIDs |-> 0]
    /\ runs = 0
    /\ ExtractIdle
    /\ GraphIdle
    /\ ChatIdle
    /\ http_request = [handled |-> FALSE]
    /\ http_response = [status |-> 0]
    /\ stages = <<>>

NextDataset == StartRun \/ ProcessRecord \/ Interrupt \/ WriteOutput

SpecDataset == InitDataset /\ [][NextDataset]_vars

\* C15 as stated: over all runs, no PMCID is sent to the language model more
\* than once.
C15_SentOncePerPMCID ==
    \A p \in PMCIDs : requests[p] <= 1

\* C15 as amended: over all runs, each possibly stopped between two records,
\* call_gemini is called at most once for a PMCID and sends it to the model
\* at most four times; a PMCID has a cache file exactly when it was
\* extracted; a pass over a cached record calls nothing, and a pass over a
\* record with no cache file extracts it once and leaves its cache file
\* written before the next record is looked at.
C15_ExtractedOncePerPMCID ==
    /\ [](\A p \in PMCIDs :
            /\ extractions[p] <= 1
            /\ requests[p] <= 4 * extractions[p]
            /\ requests[p] >= extractions[p]
            /\ (cache[p] # "absent") <=> (extractions[p] = 1))
    /\ [][(cursor >= 1 /\ cursor' = cursor + 1) =>
            LET p == source_data[cursor]
            IN /\ \A q \in PMCIDs \ {p} :
                     /\ cache'[q] = cache[q]
                     /\ extractions'[q] = extractions[q]
                     /\ requests'[q] = requests[q]
               /\ IF cache[p] # "absent"
                  THEN /\ cache'[p] = cache[p]
                       /\ extractions'[p] = extractions[p]
                       /\ requests'[p] = requests[p]
                  ELSE /\ cache'[p] # "absent"
                       /\ extractions'[p] = extractions[p] + 1
                       /\ requests'[p] \in 1..4]_vars

\* the second run passed a record the first run had extracted with three
\* requests before it was stopped
C15_Witness ==
    /\ runs = 2
    /\ cursor = 2
    /\ Len(source_data) = 2
    /\ extractions[source_data[1]] = 1
    /\ requests[source_data[1]] = 3
    /\ cache[source_data[2]] = "absent"

-----------------------------------------------------------------------------
(* CaseChat.get_diagnosis_summary *)

\* the most differentials in a stored diagnosis
MaxDifferentials == 2

\* the most alternative hypotheses of a final state
MaxAlternatives == 2

Condition == Obj(<<"condition:", "confidence:">>, <<Str("cond"), Num>>)
NoCondition == Obj(<<"confidence:">>, <<Num>>)

\* the part of a stored diagnosis that names the primary finding: an
\* acute_complication, an underlying_etiology alone, an acute_complication
\* with no condition next to an underlying_etiology, an underlying_etiology
\* that is text, or neither
PrimaryParts ==
    {[k |-> <<"acute_complication:">>, c |-> <<Condition>>],
     [k |-> <<"underlying_etiology:">>, c |-> <<Condition>>],
     [k |-> <<"acute_complication:", "underlying_etiology:">>,
      c |-> <<NoCondition, Condition>>],
     [k |-> <<"underlying_etiology:">>, c |-> <<Str("cond")>>],
     [k |-> <<>>, c |-> <<>>]}

\* the differentials of a stored diagnosis: no entry, or a list
DifferentialParts ==
    {[k |-> <<>>, c |-> <<>>]}
      \cup {[k |-> <<"differentials:">>, c |-> <<Arr(d)>>] :
              d \in SeqsUpTo({Condition, NoCondition}, MaxDifferentials)}

\* initial_diagnosis as the pipeline stores it: json.dumps of the object
SummaryDiagnoses ==
    {JsonDumps(Obj(p.k \o d.k, p.c \o d.c)) :
        p \in PrimaryParts, d \in DifferentialParts}

\* alternative_hypotheses as the pipeline stores them
SummaryAlternatives ==
    {Arr(a) : a \in SeqsUpTo({TextAlternative, NoCondition, Str("cond")},
                             MaxAlternatives)}
      \cup {RawPlaceholder(<<"w">>)}

SummaryFinalStates ==
    {[initial_state("c1") EXCEPT
        !.case_data = CaseRecord("c1"),
        !.initial_diagnosis = diagnosis,
        !.alternative_hypotheses = alternatives] :
        diagnosis \in SummaryDiagnoses, alternatives \in SummaryAlternatives}

RankedEntry(rank, type, entry) ==
    [rank |-> rank, type |-> type,
     condition |-> Get(entry, "condition:", Str("Unknown"))]

\* for i, d in enumerate(diffs, start=2)
RankedDifferentials(diffs) ==
    [i \in 1..Len(diffs.c) |-> RankedEntry(i + 1, "differential", diffs.c[i])]

\* the loop over self.alternatives
RECURSIVE RankedAlternatives(_, _, _)
RankedAlternatives(alternatives, i, ranked) ==
    IF i > Len(alternatives.c) THEN ranked
    ELSE RankedAlternatives(alternatives, i + 1,
           IF IsDict(alternatives.c[i])
                /\ Truthy(Get(alternatives.c[i], "condition:", None))
           THEN Append(ranked,
                       RankedEntry(Len(ranked) + 1, "alternative",
                                   alternatives.c[i]))
           ELSE ranked)

Summary(raised, primary, ranked) ==
    [raised |-> raised, primary |-> primary, ranked_list |-> ranked]

get_diagnosis_summary_of(c) ==
    LET loaded == JsonLoads(c.diagnosis)
        diag_data == IF loaded = JSONDecodeError THEN Obj(<<>>, <<>>) ELSE loaded
        first == Get(diag_data, "acute_complication:",
                     Get(diag_data, "primary_diagnosis:", Obj(<<>>, <<>>)))
        primary == IF IsDict(first) /\ ~Truthy(Get(first, "condition:", None))
                   THEN Get(diag_data, "underlying_etiology:", Obj(<<>>, <<>>))
                   ELSE first
        diffs == Get(diag_data, "differentials:", Arr(<<>>))
        head == IF Truthy(Get(primary, "condition:", None))
                THEN <<RankedEntry(1, "primary", primary)>> ELSE <<>>
    IN IF ~IsDict(diag_data) \/ ~IsDict(first) \/ ~IsDict(primary)
       THEN Summary("AttributeError", None, <<>>)
       ELSE IF ~IsList(diffs) \/ \E i \in 1..Len(diffs.c) : ~IsDict(diffs.c[i])
       THEN Summary("AttributeError", None, <<>>)
       ELSE Summary("none", primary,
                    RankedAlternatives(c.alternatives, 1,
                                       head \o RankedDifferentials(diffs)))

get_diagnosis_summary ==
    /\ last_op = "create_chat_session"
    /\ chat_out' = get_diagnosis_summary_of(chat)
    /\ last_op' = "get_diagnosis_summary"
    /\ UNCHANGED <<chat, delivered>>
    /\ UNCHANGED <<extractVars, graphVars, searchVars, datasetVars>>

InitSummary ==
    /\ \E final_state \in SummaryFinalStates : chat = CaseChat(final_state)
    /\ delivered = <<>>
    /\ chat_out = ""
    /\ last_op = "create_chat_session"
    /\ ExtractIdle
    /\ GraphIdle
    /\ SearchIdle
    /\ DatasetIdle

NextSummary == get_diagnosis_summary

SpecSummary == InitSummary /\ [][NextSummary]_vars

\* C16: in a summary that is returned, the ranks of the ranked_list are
\* 1, 2, .. n in list order, no rank occurs twice, and the primary entry comes
\* before the differentials and these before the alternatives.
C16_RanksOneToN ==
    (last_op = "get_diagnosis_summary" /\ chat_out.raised = "none") =>
      LET ranked == chat_out.ranked_list
          Order(type) == CASE type = "primary" -> 1
                           [] type = "differential" -> 2
                           [] type = "alternative" -> 3
      IN /\ \A i \in 1..Len(ranked) : ranked[i].rank = i
         /\ \A i, j \in 1..Len(ranked) :
               i < j => /\ ranked[i].rank # ranked[j].rank
                        /\ Order(ranked[i].type) <= Order(ranked[j].type)

-----------------------------------------------------------------------------
(* Specification of a run of the diagnosis graph *)

Init ==
    /\ env \in Envs
    /\ pc = EntryPoint
    /\ executed = <<>>
    /\ error = "none"
    /\ \E id \in CaseIds : state = initial_state(id)
    /\ calls = <<>>
    /\ ExtractIdle
    /\ ChatIdle
    /\ SearchIdle
    /\ DatasetIdle

Next ==
    \/ load_case_node
    \/ load_images_node
    \/ initial_diagnosis_node
    \/ bias_check_node
    \/ alternative_hypotheses_node
    \/ final_report_node

Spec == Init /\ [][Next]_vars

-----------------------------------------------------------------------------
(* Properties of a run of the diagnosis graph *)

NodeOrder ==
    <<"load_case", "load_images", "initial_diagnosis", "bias_check",
      "alternative_hypotheses", "final_report">>

\* C1: the nodes that have returned are always an initial part of the fixed
\* order load_case, load_images, initial_diagnosis, bias_check,
\* alternative_hypotheses, final_report; the node about to run is the one
\* right after them (so no node is skipped, repeated or started before its
\* predecessor returned), and the run is at END exactly when all six have
\* returned once.
C1_FixedOrder ==
    /\ IsPrefix(executed, NodeOrder)
    /\ pc \notin {"END", "aborted"} =>
          Len(executed) < 6 /\ pc = NodeOrder[Len(executed) + 1]
    /\ pc = "END" <=> executed = NodeOrder

C1_Witness == pc = "END" /\ Len(executed) = 6 /\ state.final_report # NoneStr

CallsOf(node) == SelectSeq(calls, LAMBDA c : c.node = node)

\* C2: when the extractor returns None for every answer the model gave to
\* initial_diagnosis_node, the node does not raise; it returns with
\* initial_diagnosis = {"raw_response": <last response>} and an empty
\* differential_diagnoses, and bias_check is the next node.
C2_RawResponseStored ==
    LET made == CallsOf("initial_diagnosis")
        last == made[Len(made)].response
    IN (/\ pc # "initial_diagnosis"
        /\ made # <<>>
        /\ \A i \in 1..Len(made) :
              made[i].response # Raise
                 /\ _extract_json_object(made[i].response) = None)
       => /\ Len(executed) >= 3
          /\ executed[3] = "initial_diagnosis"
          /\ state.initial_diagnosis =
                JsonDumps(Obj(<<"raw_response:">>, <<Str(Join(last))>>))
          /\ state.differential_diagnoses = Arr(<<>>)

\* an attempt succeeded: the extracted object has a non-empty
\* acute_complication or differentials entry
Succeeded(response) ==
    LET d == _extract_json_object(response)
    IN /\ d # None
       /\ \/ Truthy(Get(d, "acute_complication:", None))
          \/ Truthy(Get(d, "differentials:", None))

\* C3: initial_diagnosis_node calls the model at most twice; the first call
\* carries the first task prompt; a second call is made only after a first
\* answer that did not succeed, and carries the stricter prompt; after a
\* first answer that succeeded there is no second call.
C3_AtMostTwoCalls ==
    LET made == CallsOf("initial_diagnosis")
    IN /\ Len(made) <= 2
       /\ Len(made) >= 1 => made[1].task = "initial"
       /\ Len(made) >= 2 =>
             /\ made[2].task = "strict"
             /\ made[1].response # Raise
             /\ ~Succeeded(made[1].response)
       /\ (Len(made) >= 1 /\ made[1].response # Raise
             /\ Succeeded(made[1].response)) => Len(made) = 1

C3_Witness ==
    LET made == CallsOf("initial_diagnosis")
    IN Len(made) = 2 /\ made[2].task = "strict" /\ Succeeded(made[2].response)
          /\ pc = "bias_check"

\* C6: when alternative_hypotheses_node has returned, alternative_hypotheses
\* is a list; it is the extracted JSON array if there is one, else the first
\* list-valued field of the extracted object if there is one, else the prose
\* alternatives if there are any, and the raw-response placeholder only when
\* all three yield nothing.
C6_FallbackOrder ==
    Len(executed) >= 5 =>
      LET made == CallsOf("alternative_hypotheses")
          r == made[1].response
          alts == state.alternative_hypotheses
          a == _extract_json_array(r)
          o == _extract_json_object(r)
          l == IF o.t = "obj" /\ Len(o.k) > 0 THEN FirstListValue(o) ELSE None
          p == _extract_text_alternatives(r)
      IN /\ Len(made) = 1
         /\ alts # None /\ alts.t = "arr"
         /\ a # None => alts = a
         /\ (a = None /\ l # None) => alts = l
         /\ (a = None /\ l = None /\ p # None) => alts = p
         /\ (a = None /\ l = None /\ p = None) <=> alts = RawPlaceholder(r)

\* the object fallback decided, although prose extraction had a result too
C6_Witness ==
    /\ Len(executed) >= 5
    /\ LET r == CallsOf("alternative_hypotheses")[1].response
           o == _extract_json_object(r)
       IN /\ _extract_json_array(r) = None
          /\ o # None
          /\ FirstListValue(o) # None
          /\ _extract_text_alternatives(r) # None
          /\ state.alternative_hypotheses = FirstListValue(o)

\* the case id is among the dataset's ids: the case_id fields of a list,
\* the keys of a dict
InDataset(ds, id) ==
    \E i \in 1..Len(ds.entries) :
        IF ds.form = "list" THEN ds.entries[i].case.case_id = id
        ELSE ds.entries[i].key = id

\* C7: once load_case_node has run, a missing dataset file has ended the run
\* with FileNotFoundError and a case id that is not in the dataset with
\* ValueError; in both cases no node has returned, no model call was made
\* and there is no final report.
C7_LoadCaseAborts ==
    pc # "load_case" =>
      /\ ~env.exists => error = "FileNotFoundError"
      /\ (env.exists /\ ~InDataset(env.dataset, state.case_id)) =>
            error = "ValueError"
      /\ (~env.exists \/ ~InDataset(env.dataset, state.case_id)) =>
            /\ pc = "aborted"
            /\ executed = <<>>
            /\ calls = <<>>
            /\ state.final_report = NoneStr

C7_Witness ==
    /\ error = "ValueError"
    /\ env.dataset.form = "dict"
    /\ env.dataset.entries # <<>>
    /\ pc = "aborted"

-----------------------------------------------------------------------------
(* Properties of the extractors *)

\* C4: when the model output is exactly one valid JSON object,
\* _extract_json_object returns that whole object.
C4_WholeObject ==
    (obj_result # Unset /\ IsDict(JsonLoads(text))) =>
        obj_result = JsonLoads(text)

\* C5: when the model output is exactly one valid JSON array whose elements
\* are objects, _extract_json_array returns that whole array.
C5_WholeArray ==
    LET whole == JsonLoads(text)
    IN (/\ arr_result # Unset
        /\ IsList(whole)
        /\ \A i \in 1..Len(whole.c) : IsDict(whole.c[i]))
       => arr_result = whole

-----------------------------------------------------------------------------
(* Specification of the extractors *)

InitExtract ==
    /\ text \in ExtractInputs
    /\ obj_result = Unset
    /\ arr_result = Unset
    /\ GraphIdle
    /\ ChatIdle
    /\ SearchIdle
    /\ DatasetIdle

ExtractObject ==
    /\ obj_result = Unset
    /\ obj_result' = _extract_json_object(text)
    /\ UNCHANGED <<text, arr_result>>
    /\ UNCHANGED <<graphVars, chatVars, searchVars, datasetVars>>

ExtractArray ==
    /\ arr_result = Unset
    /\ arr_result' = _extract_json_array(text)
    /\ UNCHANGED <<text, obj_result>>
    /\ UNCHANGED <<graphVars, chatVars, searchVars, datasetVars>>

NextExtract == ExtractObject \/ ExtractArray

SpecExtract == InitExtract /\ [][NextExtract]_vars

====
